---- MODULE Spec2Model ----
(***************************************************************************)
(* rCryptoBot: the price acquisition / caching pipeline                    *)
(* (services/priceFeeds.js) and the alert evaluation engine                *)
(* (services/alerts.js, commands/index.js).                                *)
(*                                                                         *)
(* Time is Date.now() in milliseconds.  Every `await` of the source is a   *)
(* suspension point: a handler is split into one action per stretch of     *)
(* code between two awaits, and other callbacks and the clock may run in   *)
(* between.                                                                *)
(***************************************************************************)
EXTENDS Integers, Sequences, FiniteSets, TLC

VARIABLES
    now,                \* Date.now()
    realtimePrices,     \* priceFeeds.js:7   Map symbol -> record
    priceCache,         \* priceFeeds.js:8   Map symbol -> record
    lastRateLimitTime,  \* priceFeeds.js:9
    inflight,           \* getCachedCryptoData calls suspended at `await getCryptoData`
    ret,                \* observation: what the getCachedCryptoData step just taken did
    seen429At,          \* observation: when a cold fetch last received an HTTP 429
    polled,             \* observation: the sources the last poll cycle contacted
    priceAlerts,        \* alerts.js:7      chatId -> array of alert objects (by reference)
    heap,               \* the alert objects ever created, by reference number
    cycles,             \* checkAlerts calls in flight (manual-alert pass)
    sent,               \* observation: per alert, the chats its trigger message was sent to
    evaluated,          \* observation: the resolver answer / sink result the step just taken handled
    baselines,          \* alerts.js:10     autoAlerts.baselines
    enabled,            \* alerts.js:9      autoAlerts.enabled
    runs,               \* checkAutoVolatilityAlerts calls in flight
    volSent,            \* observation: per chat, when volatility messages were sent
    fired,              \* observation: the [at, price] of the volatility alerts fired
    poller,             \* where the fetchRealtimePrices call of the interval timer stands
    requests            \* the axios requests the timer cycles are waiting for

priceVars == <<now, realtimePrices, priceCache, lastRateLimitTime, inflight,
               ret, seen429At>>
alertVars == <<priceAlerts, heap, cycles, sent, evaluated>>
autoVars == <<baselines, enabled, runs, volSent, fired>>
hangVars == <<poller, requests>>
vars == <<now, realtimePrices, priceCache, lastRateLimitTime, inflight,
          ret, seen429At, polled, priceAlerts, heap, cycles, sent, evaluated,
          baselines, enabled, runs, volSent, fired, poller, requests>>

----------------------------------------------------------------------------
(* Configuration: config/config.example.js *)

CACHE_DURATION == 120000
RATE_LIMIT_BACKOFF == 120000
PRICE_FRESHNESS_WINDOW == 15000

(* Date.now() when the process starts.  It is an epoch time, so it is far   *)
(* larger than every configured duration.                                  *)
BootTime == 4000000

(* Bounds of the model. *)
MaxInflight == 1        \* getCachedCryptoData calls suspended at once

(* Prices the upstream sources quote. *)
Prices == {1, 2}

(* "BTC" is polled by all three realtime sources; "DOGE" is only in the    *)
(* CoinGecko symbol map and is never written to realtimePrices.            *)
Tracked == {"BTC"}
Symbols == {"BTC", "DOGE"}

(* The instants at which the clock is observed, as offsets from BootTime:   *)
(* they put ages just below, at and above the freshness window and the     *)
(* cache duration.                                                         *)
Offsets == {0, 10000, PRICE_FRESHNESS_WINDOW, CACHE_DURATION}
Instants == {BootTime + o : o \in Offsets}

----------------------------------------------------------------------------
(* Values *)

NoTime == 0 - 1

(* JavaScript null / a missing Map entry. *)
NULL == [price |-> 0, timestamp |-> NoTime, source |-> "null"]

Rec(p, t, s) == [price |-> p, timestamp |-> t, source |-> s]

(* What the CoinGecko endpoint answers to one request: a payload with the  *)
(* coin's usd price, a payload without the coin, HTTP 429, or another      *)
(* failure (network error, timeout, 5xx).                                  *)
Data(p) == [kind |-> "data", price |-> p]
Responses == {Data(p) : p \in Prices}
             \cup {[kind |-> k, price |-> 0] : k \in {"nodata", "429", "error"}}

(* The outcome of an async call: a returned value or a thrown error. *)
Returned(v) == [thrown |-> FALSE, status |-> 0, value |-> v]
Thrown(st) == [thrown |-> TRUE, status |-> st, value |-> NULL]

NoRet == [step |-> "none", sym |-> "", force |-> FALSE, path |-> "none",
          resp |-> "none", thrown |-> FALSE, value |-> NULL, at |-> NoTime]

----------------------------------------------------------------------------
(* priceFeeds.js:12-39.  The object built from a payload has no timestamp  *)
(* and no source field.  Every failure of the request is caught and turned *)
(* into null.                                                              *)
getCryptoDataThrowsNoData(resp) ==
    CASE resp.kind = "data" -> Returned(Rec(resp.price, NoTime, "none"))
      [] resp.kind = "nodata" -> Thrown(404)
      [] OTHER -> Returned(NULL)

getCryptoData(resp) ==
    CASE resp.kind = "data" -> Returned(Rec(resp.price, NoTime, "none"))
      [] resp.kind = "nodata" -> Returned(NULL)
      [] OTHER -> Returned(NULL)

(* priceFeeds.js:181 *)
IsFreshInclusive(entry, t) == t - entry.timestamp <= PRICE_FRESHNESS_WINDOW

IsFresh(entry, t) == t - entry.timestamp < PRICE_FRESHNESS_WINDOW

(* priceFeeds.js:188 *)
BackoffActiveUptime(t) == (t - BootTime) - lastRateLimitTime < RATE_LIMIT_BACKOFF

BackoffActiveInverted(t) == t - lastRateLimitTime > RATE_LIMIT_BACKOFF

BackoffActive(t) == t - lastRateLimitTime < RATE_LIMIT_BACKOFF

(* priceFeeds.js:203 *)
IsWarmInclusive(entry, t) == t - entry.timestamp <= CACHE_DURATION

IsWarm(entry, t) == t - entry.timestamp < CACHE_DURATION

(* priceFeeds.js:190-197 and 228-233: cache first, then realtime. *)
FallbackRealtimeFirst(symbol) ==
    IF realtimePrices[symbol] # NULL THEN realtimePrices[symbol]
    ELSE priceCache[symbol]

Fallback(symbol) ==
    IF priceCache[symbol] # NULL THEN priceCache[symbol]
    ELSE realtimePrices[symbol]

(* priceFeeds.js:173-210: getCachedCryptoData up to `await getCryptoData`. *)
(* The result is the path taken and the value returned; path "fetch" means *)
(* the call suspends in the cold fetch.                                    *)
ResolveServesWarmCache(symbol, forceRefresh) ==
    IF realtimePrices[symbol] # NULL /\ IsFresh(realtimePrices[symbol], now)
    THEN [path |-> "realtime", value |-> realtimePrices[symbol]]
    ELSE IF BackoffActive(now)
    THEN [path |-> "backoff", value |-> Fallback(symbol)]
    ELSE IF priceCache[symbol] # NULL /\ IsWarm(priceCache[symbol], now)
    THEN [path |-> "cache", value |-> priceCache[symbol]]
    ELSE [path |-> "fetch", value |-> NULL]

Resolve(symbol, forceRefresh) ==
    IF realtimePrices[symbol] # NULL /\ IsFresh(realtimePrices[symbol], now)
    THEN [path |-> "realtime", value |-> realtimePrices[symbol]]
    ELSE IF BackoffActive(now)
    THEN [path |-> "backoff", value |-> Fallback(symbol)]
    ELSE IF ~forceRefresh /\ priceCache[symbol] # NULL
            /\ IsWarm(priceCache[symbol], now)
    THEN [path |-> "cache", value |-> priceCache[symbol]]
    ELSE [path |-> "fetch", value |-> NULL]

getCachedCryptoDataTouchesCache(symbol, forceRefresh) ==
    LET r == Resolve(symbol, forceRefresh) IN
    /\ r.path = "fetch" => Len(inflight) < MaxInflight
    /\ inflight' = IF r.path = "fetch"
                   THEN Append(inflight, [sym |-> symbol, at |-> now])
                   ELSE inflight
    /\ priceCache' = IF r.path = "cache"
                     THEN [priceCache EXCEPT ![symbol].timestamp = now]
                     ELSE priceCache
    /\ ret' = [step |-> "call", sym |-> symbol, force |-> forceRefresh,
               path |-> r.path, resp |-> "none", thrown |-> FALSE,
               value |-> r.value, at |-> now]
    /\ UNCHANGED <<now, realtimePrices, lastRateLimitTime>>

(* priceFeeds.js:173-212: a call up to its return or to the await of the   *)
(* cold fetch, with at most `limit` calls suspended at once.               *)
getCachedCryptoData_call(symbol, forceRefresh, limit) ==
    LET r == Resolve(symbol, forceRefresh) IN
    /\ r.path = "fetch" => Len(inflight) < limit
    /\ inflight' = IF r.path = "fetch"
                   THEN Append(inflight, [sym |-> symbol, at |-> now])
                   ELSE inflight
    /\ ret' = [step |-> "call", sym |-> symbol, force |-> forceRefresh,
               path |-> r.path, resp |-> "none", thrown |-> FALSE,
               value |-> r.value, at |-> now]
    /\ UNCHANGED <<now, realtimePrices, priceCache, lastRateLimitTime>>

getCachedCryptoData(symbol, forceRefresh) ==
    getCachedCryptoData_call(symbol, forceRefresh, MaxInflight)

RemoveAt(s, i) == [j \in 1..(Len(s) - 1) |-> IF j < i THEN s[j] ELSE s[j + 1]]

(* priceFeeds.js:211-238: the rest of getCachedCryptoData, once the cold   *)
(* fetch of the suspended call c has ended with `out`.  `now` of the       *)
(* source is the value read at line 175, kept in the suspended call.       *)
ResumeEvictsOnFailure(c, out) ==
    IF ~out.thrown /\ out.value # NULL
    THEN [path |-> "cold", value |-> out.value, thrown |-> FALSE,
          cache |-> Rec(out.value.price, c.at, "coingecko"),
          rateLimit |-> lastRateLimitTime]
    ELSE [path |-> "null", value |-> NULL, thrown |-> FALSE,
          cache |-> NULL, rateLimit |-> lastRateLimitTime]

ResumeStampsNow(c, out) ==
    IF ~out.thrown /\ out.value # NULL
    THEN [path |-> "cold", value |-> out.value, thrown |-> FALSE,
          cache |-> Rec(out.value.price, now, "coingecko"),
          rateLimit |-> lastRateLimitTime]
    ELSE [path |-> "null", value |-> NULL, thrown |-> FALSE,
          cache |-> priceCache[c.sym], rateLimit |-> lastRateLimitTime]

Resume(c, out) ==
    IF ~out.thrown
    THEN IF out.value # NULL
         THEN [path |-> "cold", value |-> out.value, thrown |-> FALSE,
               cache |-> Rec(out.value.price, c.at, "coingecko"),
               rateLimit |-> lastRateLimitTime]
         ELSE [path |-> "null", value |-> NULL, thrown |-> FALSE,
               cache |-> priceCache[c.sym], rateLimit |-> lastRateLimitTime]
    ELSE IF out.status = 429
         THEN IF Fallback(c.sym) # NULL
              THEN [path |-> "stale", value |-> Fallback(c.sym), thrown |-> FALSE,
                    cache |-> priceCache[c.sym], rateLimit |-> c.at]
              ELSE [path |-> "throw", value |-> NULL, thrown |-> TRUE,
                    cache |-> priceCache[c.sym], rateLimit |-> c.at]
         ELSE [path |-> "throw", value |-> NULL, thrown |-> TRUE,
               cache |-> priceCache[c.sym], rateLimit |-> lastRateLimitTime]

getCachedCryptoData_resumeWritesRealtime(i, resp) ==
    LET c == inflight[i]
        r == Resume(c, getCryptoData(resp)) IN
    /\ priceCache' = [priceCache EXCEPT ![c.sym] = r.cache]
    /\ realtimePrices' = [realtimePrices EXCEPT ![c.sym] = r.cache]
    /\ lastRateLimitTime' = r.rateLimit
    /\ inflight' = RemoveAt(inflight, i)
    /\ ret' = [step |-> "resume", sym |-> c.sym, force |-> FALSE,
               path |-> r.path, resp |-> resp.kind, thrown |-> r.thrown,
               value |-> r.value, at |-> c.at]
    /\ UNCHANGED now

getCachedCryptoData_resume(i, resp) ==
    LET c == inflight[i]
        r == Resume(c, getCryptoData(resp)) IN
    /\ priceCache' = [priceCache EXCEPT ![c.sym] = r.cache]
    /\ lastRateLimitTime' = r.rateLimit
    /\ inflight' = RemoveAt(inflight, i)
    /\ ret' = [step |-> "resume", sym |-> c.sym, force |-> FALSE,
               path |-> r.path, resp |-> resp.kind, thrown |-> r.thrown,
               value |-> r.value, at |-> c.at]
    /\ UNCHANGED <<now, realtimePrices>>

----------------------------------------------------------------------------
(* priceFeeds.js:160-170 with 42-157: one fetchRealtimePrices call.  ok1   *)
(* and ok2 are the results of fetchCryptoComparePrices and                 *)
(* fetchCoinCapPrices, resp is the answer to the getCryptoData call of the *)
(* CoinGecko loop; the tier that succeeds stamps the entry with Date.now().*)
WriteRealtime(p, src) ==
    [s \in Symbols |-> IF s \in Tracked THEN Rec(p, now, src)
                       ELSE realtimePrices[s]]

fetchRealtimePrices(ok1, ok2, resp, p) ==
    LET out == getCryptoData(resp) IN
    /\ realtimePrices' =
           IF ok1 THEN WriteRealtime(p, "cryptocompare")
           ELSE IF ok2 THEN WriteRealtime(p, "coincap")
           ELSE IF ~out.thrown /\ out.value # NULL
           THEN WriteRealtime(out.value.price, "coingecko-fallback")
           ELSE realtimePrices
    /\ ret' = NoRet
    /\ UNCHANGED <<now, priceCache, lastRateLimitTime, inflight>>

(* What an HTTP source answers to the poller's one request: a payload in  *)
(* the expected shape, a payload without the expected member, a network    *)
(* error or timeout, a non-2xx status (axios rejects), or a payload whose  *)
(* entries lack the expected fields.                                       *)
TierOutcomes == {"ok", "empty", "neterr", "non200", "malformed"}

NoPoll == [contacted |-> <<>>, thrown |-> FALSE]

(* priceFeeds.js:42-78: true after the table is written; false when the    *)
(* payload has no RAW member; every exception (the rejected request, the   *)
(* TypeError on a malformed entry) is caught at line 74 and gives false.   *)
fetchCryptoComparePrices(o) ==
    CASE o = "ok" -> Returned(TRUE)
      [] o = "empty" -> Returned(FALSE)
      [] OTHER -> Returned(FALSE)

(* priceFeeds.js:81-126: the same shape, catch at line 122. *)
fetchCoinCapPricesRethrows(o) ==
    CASE o = "ok" -> Returned(TRUE)
      [] o = "empty" -> Returned(FALSE)
      [] OTHER -> Thrown(500)

fetchCoinCapPrices(o) ==
    CASE o = "ok" -> Returned(TRUE)
      [] o = "empty" -> Returned(FALSE)
      [] OTHER -> Returned(FALSE)

(* priceFeeds.js:129-157: the per-symbol loop over getCryptoData, which    *)
(* returns null on failure; the function returns undefined.                *)
fetchFromCoinGeckoFallback(resp) ==
    LET data == getCryptoData(resp) IN
    IF data.thrown THEN Returned(FALSE) ELSE Returned(data.value # NULL)

Contact(src, o) == [source |-> src, outcome |-> o]

(* priceFeeds.js:160-170: the order in which fetchRealtimePrices awaits    *)
(* the three sources, and whether an exception leaves it.                  *)
PollLogAllTiers(o1, o2, resp) ==
    [contacted |-> <<Contact("cryptocompare", o1), Contact("coincap", o2),
                     Contact("coingecko", resp.kind)>>,
     thrown |-> FALSE]

PollLog(o1, o2, resp) ==
    LET r1 == fetchCryptoComparePrices(o1)
        r2 == fetchCoinCapPrices(o2)
        r3 == fetchFromCoinGeckoFallback(resp)
        c1 == <<Contact("cryptocompare", o1)>>
        c2 == Append(c1, Contact("coincap", o2))
        c3 == Append(c2, Contact("coingecko", resp.kind)) IN
    IF r1.thrown THEN [contacted |-> c1, thrown |-> TRUE]
    ELSE IF r1.value THEN [contacted |-> c1, thrown |-> FALSE]
    ELSE IF r2.thrown THEN [contacted |-> c2, thrown |-> TRUE]
    ELSE IF r2.value THEN [contacted |-> c2, thrown |-> FALSE]
    ELSE [contacted |-> c3, thrown |-> r3.thrown]

Succeeded(r) == IF r.thrown THEN FALSE ELSE r.value

(* One poll cycle from the answers of the sources: priceFeeds.js:160-170   *)
(* with the three fetch functions.                                         *)
(* priceFeeds.js:58-68, 105-116: a batch source writes the table entry by  *)
(* entry inside its try block.  When the TypeError on a malformed entry    *)
(* ends the forEach, the entries before it are already written: whether    *)
(* the tracked coin's entry is among them depends on the payload.          *)
Wrote(o) ==
    IF o = "ok" THEN {TRUE} ELSE IF o = "malformed" THEN BOOLEAN ELSE {FALSE}

(* The table after a cycle in which the two batch sources wrote (w1, w2)   *)
(* and reported (ok1, ok2): the last write stands.                         *)
AfterCycle(w1, ok1, w2, ok2, resp, p) ==
    LET out == getCryptoData(resp) IN
    IF ok1 THEN WriteRealtime(p, "cryptocompare")
    ELSE IF ok2 THEN WriteRealtime(p, "coincap")
    ELSE IF ~out.thrown /\ out.value # NULL
    THEN WriteRealtime(out.value.price, "coingecko-fallback")
    ELSE IF w2 THEN WriteRealtime(p, "coincap")
    ELSE IF w1 THEN WriteRealtime(p, "cryptocompare")
    ELSE realtimePrices

pollCycle(o1, o2, resp, p) ==
    /\ \E w1 \in Wrote(o1), w2 \in Wrote(o2) :
           realtimePrices' =
               AfterCycle(w1, Succeeded(fetchCryptoComparePrices(o1)),
                          w2, Succeeded(fetchCoinCapPrices(o2)), resp, p)
    /\ ret' = NoRet
    /\ polled' = PollLog(o1, o2, resp)
    /\ UNCHANGED <<now, priceCache, lastRateLimitTime, inflight>>

(* The clock moves to a later instant. *)
Tick(t) ==
    /\ t > now
    /\ now' = t
    /\ ret' = NoRet
    /\ UNCHANGED <<realtimePrices, priceCache, lastRateLimitTime, inflight>>

(* The observation of HTTP 429 answers to cold fetches. *)
Observe429(resp) == seen429At' = IF resp.kind = "429" THEN now ELSE seen429At

----------------------------------------------------------------------------
(* Manual price alerts: commands/index.js (/alert, /clearalerts) and       *)
(* alerts.js checkAlerts.                                                  *)

Chats == {1, 2}
MaxAlerts == 2          \* alert objects ever created
MaxCycles == 2          \* checkAlerts calls in flight at once

(* Target prices users ask for, and prices the sources quote for the coin. *)
Targets == {50000, 60000}
Quotes == {50000, 59999, 60000}

Done == [pc |-> "done", keys |-> <<>>, chat |-> 0, todo |-> <<>>]

NoEval == [id |-> 0, price |-> 0, was |-> "none", out |-> "none"]

(* The keys of an object whose keys are chat ids, in for-in order          *)
(* (integer keys ascend).                                                  *)
RECURSIVE Ascending(_)
Ascending(S) ==
    IF S = {} THEN <<>>
    ELSE LET m == CHOOSE x \in S : \A y \in S : x <= y
         IN <<m>> \o Ascending(S \ {m})

(* commands/index.js:227-293: /alert <symbol> <price>, from the answer to  *)
(* its getCryptoData call on.  The alert keeps the price quoted then as    *)
(* currentPrice, the "original price" of the crossing rule.                *)
NewAlert(chatId, targetPrice, price) ==
    [chat |-> chatId, symbol |-> "BTC", targetPrice |-> targetPrice,
     currentPrice |-> price, timestamp |-> now, status |-> "active",
     triggerTime |-> NoTime, triggerPrice |-> 0]

alert(chatId, targetPrice, resp) ==
    LET out == getCryptoData(resp) IN
    /\ Len(heap) < MaxAlerts
    /\ IF out.value = NULL
       THEN UNCHANGED <<priceAlerts, heap, sent>>
       ELSE /\ heap' = Append(heap, NewAlert(chatId, targetPrice, out.value.price))
            /\ sent' = Append(sent, <<>>)
            /\ priceAlerts' = [priceAlerts EXCEPT
                                 ![chatId] = Append(@, Len(heap) + 1)]
    /\ evaluated' = NoEval
    /\ UNCHANGED cycles

(* commands/index.js:347-357: /clearalerts deletes the chat's array; the   *)
(* alert objects live on wherever a running cycle still refers to them.    *)
clearalertsActiveOnly(chatId) ==
    LET IsTriggered(id) == heap[id].status = "triggered" IN
    /\ priceAlerts[chatId] # <<>>
    /\ priceAlerts' = [priceAlerts EXCEPT ![chatId] = SelectSeq(@, IsTriggered)]
    /\ evaluated' = NoEval
    /\ UNCHANGED <<heap, cycles, sent>>

clearalerts(chatId) ==
    /\ priceAlerts[chatId] # <<>>
    /\ priceAlerts' = [priceAlerts EXCEPT ![chatId] = <<>>]
    /\ evaluated' = NoEval
    /\ UNCHANGED <<heap, cycles, sent>>

(* alerts.js:205 *)
IsActiveOrTriggered(id) == heap[id].status \in {"active", "triggered"}

IsActive(id) == heap[id].status = "active"
userAlerts(chatId) == SelectSeq(priceAlerts[chatId], IsActive)

(* alerts.js:223-224 *)
shouldTrigger(a, currentPrice) ==
    \/ a.targetPrice > a.currentPrice /\ currentPrice >= a.targetPrice
    \/ a.targetPrice < a.currentPrice /\ currentPrice <= a.targetPrice

(* alerts.js:231-233 *)
StampRewritesOriginal(a, currentPrice) ==
    [a EXCEPT !.status = "triggered", !.triggerTime = now,
              !.triggerPrice = currentPrice, !.currentPrice = currentPrice]

Stamp(a, currentPrice) ==
    [a EXCEPT !.status = "triggered", !.triggerTime = now,
              !.triggerPrice = currentPrice]

(* alerts.js:204-208: the for-in loop runs on to the next chat that has    *)
(* active alerts and suspends in the resolver call for the first of them.  *)
RECURSIVE NextChat(_)
NextChat(keys) ==
    IF keys = <<>> THEN Done
    ELSE IF userAlerts(Head(keys)) = <<>> THEN NextChat(Tail(keys))
    ELSE [pc |-> "price", keys |-> Tail(keys), chat |-> Head(keys),
          todo |-> userAlerts(Head(keys))]

(* alerts.js:214 (continue) and 246-248 (catch): on to the next alert of   *)
(* the snapshot, without the pacing delay.                                 *)
NextAlertAborts(cyc) == Done

NextAlert(cyc) ==
    IF Len(cyc.todo) > 1
    THEN [cyc EXCEPT !.pc = "price", !.todo = Tail(cyc.todo)]
    ELSE NextChat(cyc.keys)

(* alerts.js:243-245: the pacing delay, unless the alert is the last one.  *)
Pace(cyc) ==
    IF Len(cyc.todo) > 1 THEN [cyc EXCEPT !.pc = "pace"]
    ELSE NextChat(cyc.keys)

Put(k, cyc) ==
    cycles' = IF cyc = Done THEN RemoveAt(cycles, k)
              ELSE [cycles EXCEPT ![k] = cyc]

(* alerts.js:258-260, 198-202: the interval timer calls checkAlerts, which *)
(* suspends in `await checkAutoVolatilityAlerts`.                          *)
checkAlerts ==
    /\ Len(cycles) < MaxCycles
    /\ cycles' = Append(cycles, [pc |-> "auto", keys |-> <<>>, chat |-> 0,
                                 todo |-> <<>>])
    /\ evaluated' = NoEval
    /\ UNCHANGED <<priceAlerts, heap, sent>>

(* alerts.js:204: the for-in loop starts over the chats that have alerts.  *)
checkAlerts_loop(k) ==
    /\ cycles[k].pc = "auto"
    /\ Put(k, NextChat(Ascending({c \in Chats : priceAlerts[c] # <<>>})))
    /\ evaluated' = NoEval
    /\ UNCHANGED <<priceAlerts, heap, sent>>

(* What the resolver handed to checkAlerts answers: a record, null, or a   *)
(* thrown error.                                                           *)
Answers == {Returned(Rec(p, NoTime, "none")) : p \in Quotes}
           \cup {Returned(NULL), Thrown(500)}

(* alerts.js:210-235: the resolver call of the alert at the head of the    *)
(* snapshot has ended with `out`.                                          *)
checkAlerts_price(k, out) ==
    LET cyc == cycles[k]
        id == Head(cyc.todo) IN
    /\ cyc.pc = "price"
    /\ IF out.thrown \/ out.value = NULL
       THEN /\ Put(k, NextAlert(cyc))
            /\ evaluated' = [id |-> id, price |-> 0, was |-> heap[id].status,
                             out |-> IF out.thrown THEN "thrown" ELSE "null"]
            /\ UNCHANGED heap
       ELSE /\ evaluated' = [id |-> id, price |-> out.value.price,
                             was |-> heap[id].status, out |-> "data"]
            /\ IF shouldTrigger(heap[id], out.value.price)
               THEN /\ heap' = [heap EXCEPT ![id] = Stamp(@, out.value.price)]
                    /\ cycles' = [cycles EXCEPT ![k].pc = "analysis"]
               ELSE Put(k, Pace(cyc)) /\ UNCHANGED heap
    /\ UNCHANGED <<priceAlerts, sent>>

(* alerts.js:235-238: generateAlertAnalysis has returned (it catches the   *)
(* failure of its market-context request); the message is built and handed *)
(* to bot.sendMessage for the chat of the loop.  `evaluated` notes whether  *)
(* the market-context request had succeeded.                               *)
checkAlerts_analysisOtherChat(k, contextOk) ==
    LET cyc == cycles[k]
        other == IF cyc.keys # <<>> THEN Head(cyc.keys) ELSE cyc.chat IN
    /\ cyc.pc = "analysis"
    /\ sent' = [sent EXCEPT ![Head(cyc.todo)] = Append(@, other)]
    /\ cycles' = [cycles EXCEPT ![k].pc = "send"]
    /\ evaluated' = [id |-> Head(cyc.todo), price |-> 0,
                     was |-> heap[Head(cyc.todo)].status,
                     out |-> IF contextOk THEN "context" ELSE "contextFailed"]
    /\ UNCHANGED <<priceAlerts, heap>>

checkAlerts_analysisPropagates(k, contextOk) ==
    LET cyc == cycles[k] IN
    /\ cyc.pc = "analysis"
    /\ IF contextOk
       THEN /\ sent' = [sent EXCEPT ![Head(cyc.todo)] = Append(@, cyc.chat)]
            /\ cycles' = [cycles EXCEPT ![k].pc = "send"]
       ELSE Put(k, NextAlert(cyc)) /\ UNCHANGED sent
    /\ evaluated' = [id |-> Head(cyc.todo), price |-> 0,
                     was |-> heap[Head(cyc.todo)].status,
                     out |-> IF contextOk THEN "context" ELSE "contextFailed"]
    /\ UNCHANGED <<priceAlerts, heap>>

checkAlerts_analysis(k, contextOk) ==
    LET cyc == cycles[k] IN
    /\ cyc.pc = "analysis"
    /\ sent' = [sent EXCEPT ![Head(cyc.todo)] = Append(@, cyc.chat)]
    /\ cycles' = [cycles EXCEPT ![k].pc = "send"]
    /\ evaluated' = [id |-> Head(cyc.todo), price |-> 0,
                     was |-> heap[Head(cyc.todo)].status,
                     out |-> IF contextOk THEN "context" ELSE "contextFailed"]
    /\ UNCHANGED <<priceAlerts, heap>>

(* alerts.js:238-248: bot.sendMessage has resolved or rejected. *)
checkAlerts_sent(k, ok) ==
    LET cyc == cycles[k] IN
    /\ cyc.pc = "send"
    /\ Put(k, IF ok THEN Pace(cyc) ELSE NextAlert(cyc))
    /\ evaluated' = [id |-> Head(cyc.todo), price |-> 0,
                     was |-> heap[Head(cyc.todo)].status,
                     out |-> IF ok THEN "sent" ELSE "sendFailed"]
    /\ UNCHANGED <<priceAlerts, heap, sent>>

(* alerts.js:244: the pacing delay is over. *)
checkAlerts_paced(k) ==
    /\ cycles[k].pc = "pace"
    /\ Put(k, NextAlert(cycles[k]))
    /\ evaluated' = NoEval
    /\ UNCHANGED <<priceAlerts, heap, sent>>

----------------------------------------------------------------------------
(* Auto-volatility alerts: alerts.js checkAutoVolatilityAlerts and         *)
(* commands/index.js /autoalerts.                                          *)

AUTO_ALERT_THRESHOLD == 3
AUTO_ALERT_COOLDOWN == 3600000

MaxRuns == 2            \* checkAutoVolatilityAlerts calls in flight at once

(* Quotes of the tracked coin: moves of 3%, 3.5% and less than 3% among    *)
(* them.                                                                   *)
AutoPrices == {1000, 1030, 1035, 1071}

(* Instants of the clock, as offsets from BootTime: 10, 60 and 61 minutes. *)
AutoOffsets == {0, 600000, AUTO_ALERT_COOLDOWN, AUTO_ALERT_COOLDOWN + 60000}
AutoInstants == {BootTime + o : o \in AutoOffsets}

(* No entry in autoAlerts.baselines. *)
NoBaseline == [lastAlertPrice |-> 0, lastAlertTime |-> NoTime]

Abs(x) == IF x < 0 THEN 0 - x ELSE x

(* The last two entries of a log. *)
Log(log, e) == IF Len(log) < 2 THEN Append(log, e) ELSE <<log[2], e>>

(* commands/index.js:360-392: /autoalerts toggles the chat's flag. *)
autoalerts(chatId) ==
    /\ enabled' = [enabled EXCEPT ![chatId] = IF @ = "on" THEN "off" ELSE "on"]
    /\ UNCHANGED <<baselines, runs, volSent, fired>>

(* alerts.js:30-37.  The fields price and timestamp of a baseline are      *)
(* written here and read nowhere; they are left out.                       *)
SeedStampsNow(currentPrice) ==
    [lastAlertPrice |-> currentPrice, lastAlertTime |-> now]

Seed(currentPrice) == [lastAlertPrice |-> currentPrice, lastAlertTime |-> 0]

(* alerts.js:41, 44-45.  priceChangePercent >= threshold, with the         *)
(* division multiplied out.                                                *)
FiresAtCooldown(baseline, currentPrice, t) ==
    /\ Abs(currentPrice - baseline.lastAlertPrice) * 100
           >= AUTO_ALERT_THRESHOLD * baseline.lastAlertPrice
    /\ t - baseline.lastAlertTime >= AUTO_ALERT_COOLDOWN

Fires(baseline, currentPrice, t) ==
    /\ Abs(currentPrice - baseline.lastAlertPrice) * 100
           >= AUTO_ALERT_THRESHOLD * baseline.lastAlertPrice
    /\ t - baseline.lastAlertTime > AUTO_ALERT_COOLDOWN

(* alerts.js:69-70 *)
Rebase(currentPrice, t) == [lastAlertPrice |-> currentPrice, lastAlertTime |-> t]

(* alerts.js:51-52: the for-in loop over autoAlerts.enabled runs on to the *)
(* next key whose flag is set now.                                         *)
RECURSIVE NextSubscriber(_)
NextSubscriber(keys) ==
    IF keys = <<>> THEN <<>>
    ELSE IF enabled[Head(keys)] = "on" THEN keys
    ELSE NextSubscriber(Tail(keys))

(* alerts.js:51-73: from the for-in loop on, for the run r that fires.     *)
(* With a subscriber left the run suspends in bot.sendMessage; with none   *)
(* it rebases the baseline and suspends in the pacing delay.               *)
Broadcast(k, r, keys) ==
    LET subs == NextSubscriber(keys) IN
    IF subs = <<>>
    THEN /\ baselines' = [baselines EXCEPT ![r.sym] = Rebase(r.price, r.at)]
         /\ runs' = [runs EXCEPT ![k] = [r EXCEPT !.pc = "pace", !.keys = <<>>]]
         /\ UNCHANGED volSent
    ELSE /\ volSent' = [volSent EXCEPT ![Head(subs)] = Log(@, now)]
         /\ runs' = [runs EXCEPT ![k] = [r EXCEPT !.pc = "send",
                                                  !.keys = Tail(subs)]]
         /\ UNCHANGED baselines

(* alerts.js:16-73: checkAutoVolatilityAlerts up to its first await.  The  *)
(* model tracks one coin, so the loop over trackedSymbols has one round.   *)
checkAutoVolatilityAlerts(symbol) ==
    LET currentPrice == realtimePrices[symbol].price
        baseline == baselines[symbol]
        r == [pc |-> "eval", sym |-> symbol, price |-> currentPrice,
              at |-> now, keys |-> <<>>, failed |-> FALSE]
        k == Len(runs) + 1 IN
    /\ Len(runs) < MaxRuns
    /\ realtimePrices[symbol] # NULL
    /\ IF baseline = NoBaseline
       THEN /\ baselines' = [baselines EXCEPT ![symbol] = Seed(currentPrice)]
            /\ UNCHANGED <<runs, volSent, fired>>
       ELSE IF Fires(baseline, currentPrice, now)
       THEN /\ fired' = Log(fired, [at |-> now, price |-> currentPrice])
            /\ LET subs == NextSubscriber(
                               Ascending({c \in Chats : enabled[c] # "unset"}))
               IN IF subs = <<>>
                  THEN /\ baselines' = [baselines EXCEPT
                                          ![symbol] = Rebase(currentPrice, now)]
                       /\ runs' = Append(runs, [r EXCEPT !.pc = "pace"])
                       /\ UNCHANGED volSent
                  ELSE /\ volSent' = [volSent EXCEPT ![Head(subs)] = Log(@, now)]
                       /\ runs' = Append(runs, [r EXCEPT !.pc = "send",
                                                         !.keys = Tail(subs)])
                       /\ UNCHANGED baselines
       ELSE /\ runs' = Append(runs, [r EXCEPT !.pc = "pace"])
            /\ UNCHANGED <<baselines, volSent, fired>>
    /\ UNCHANGED enabled

(* alerts.js:61-70: bot.sendMessage has resolved or rejected (the error is *)
(* caught at line 63); the loop goes on to the next subscriber, and after  *)
(* the last one the baseline is rebased.  The run notes in `failed` that   *)
(* a send of its broadcast was rejected.                                   *)
checkAutoVolatilityAlerts_sentAborts(k, ok) ==
    /\ runs[k].pc = "send"
    /\ IF ok THEN Broadcast(k, runs[k], runs[k].keys)
       ELSE /\ runs' = RemoveAt(runs, k)
            /\ UNCHANGED <<baselines, volSent>>
    /\ UNCHANGED <<enabled, fired>>

checkAutoVolatilityAlerts_sent(k, ok) ==
    /\ runs[k].pc = "send"
    /\ Broadcast(k, [runs[k] EXCEPT !.failed = (@ \/ ~ok)], runs[k].keys)
    /\ UNCHANGED <<enabled, fired>>

(* alerts.js:73: the pacing delay is over; the loop and the call end. *)
checkAutoVolatilityAlerts_paced(k) ==
    /\ runs[k].pc = "pace"
    /\ runs' = RemoveAt(runs, k)
    /\ UNCHANGED <<baselines, enabled, volSent, fired>>

----------------------------------------------------------------------------
(* The timer cycles request by request: each axios call a cycle awaits is  *)
(* a request in flight, which the source answers, or does not, and which   *)
(* axios rejects after its `timeout` option when it has one.               *)

(* axios without a `timeout` option: the default 0, no timeout. *)
NoTimeout == 0

Request(by, source, timeout) ==
    [by |-> by, source |-> source, timeout |-> timeout]

(* priceFeeds.js:47-53 *)
CryptoCompareRequest == Request("poll", "cryptocompare", 8000)

(* priceFeeds.js:94-97 *)
CoinCapRequest == Request("poll", "coincap", 8000)

(* priceFeeds.js:14-22: no timeout option. *)
getCryptoDataRequest(by) == Request(by, "coingecko", NoTimeout)

(* alerts.js:99-101 *)
MarketContextRequest == Request("alerts", "coingecko-coins", 5000)

(* priceFeeds.js:245-246, 160-161: the interval timer calls                *)
(* fetchRealtimePrices, which suspends in the CryptoCompare request.       *)
fetchRealtimePrices_start ==
    /\ poller = "idle"
    /\ poller' = "cryptocompare"
    /\ requests' = requests \cup {CryptoCompareRequest}
    /\ UNCHANGED realtimePrices

(* priceFeeds.js:160-170 with 42-157: the request the poll cycle waits for *)
(* has ended: o is how a batch source answered, resp what CoinGecko        *)
(* answered to getCryptoData.                                              *)
PollStep(o, resp, p) ==
    CASE poller = "cryptocompare" ->
             IF Succeeded(fetchCryptoComparePrices(o))
             THEN /\ realtimePrices' = WriteRealtime(p, "cryptocompare")
                  /\ poller' = "idle"
                  /\ requests' = requests \ {CryptoCompareRequest}
             ELSE /\ poller' = "coincap"
                  /\ requests' = (requests \ {CryptoCompareRequest})
                                     \cup {CoinCapRequest}
                  /\ \E w \in Wrote(o) :
                         realtimePrices' =
                             IF w THEN WriteRealtime(p, "cryptocompare")
                             ELSE realtimePrices
      [] poller = "coincap" ->
             IF Succeeded(fetchCoinCapPrices(o))
             THEN /\ realtimePrices' = WriteRealtime(p, "coincap")
                  /\ poller' = "idle"
                  /\ requests' = requests \ {CoinCapRequest}
             ELSE /\ poller' = "coingecko"
                  /\ requests' = (requests \ {CoinCapRequest})
                                     \cup {getCryptoDataRequest("poll")}
                  /\ \E w \in Wrote(o) :
                         realtimePrices' =
                             IF w THEN WriteRealtime(p, "coincap")
                             ELSE realtimePrices
      [] poller = "coingecko" ->
             LET out == getCryptoData(resp) IN
             /\ realtimePrices' =
                    IF ~out.thrown /\ out.value # NULL
                    THEN WriteRealtime(out.value.price, "coingecko-fallback")
                    ELSE realtimePrices
             /\ poller' = "delay"
             /\ requests' = requests \ {getCryptoDataRequest("poll")}

fetchRealtimePrices_response(o, resp, p) ==
    /\ poller \in {"cryptocompare", "coincap", "coingecko"}
    /\ PollStep(o, resp, p)

(* axios rejects the request the poll cycle waits for when its timeout     *)
(* has run out.                                                            *)
fetchRealtimePrices_timeout ==
    /\ \E q \in requests : q.by = "poll" /\ q.timeout # NoTimeout
    /\ PollStep("neterr", [kind |-> "error", price |-> 0], 1)

(* priceFeeds.js:145: the delay after the request of the CoinGecko loop.   *)
fetchRealtimePrices_delayed ==
    /\ poller = "delay"
    /\ poller' = "idle"
    /\ UNCHANGED <<realtimePrices, requests>>

(* alerts.js:210 with priceFeeds.js:173-212: checkAlerts calls the         *)
(* resolver with forceRefresh for the alert at the head of its snapshot.   *)
(* A call the resolver answers without a request goes on in checkAlerts;   *)
(* a cold fetch leaves the cycle waiting for the getCryptoData request.    *)
Triggers(k, out) ==
    /\ ~out.thrown /\ out.value # NULL
    /\ shouldTrigger(heap[Head(cycles[k].todo)], out.value.price)

Asked(k, out) ==
    IF Triggers(k, out) THEN {MarketContextRequest} ELSE {}

checkAlerts_resolve(k) ==
    LET r == Resolve("BTC", TRUE) IN
    /\ cycles[k].pc = "price"
    /\ getCryptoDataRequest("alerts") \notin requests
    /\ getCachedCryptoData("BTC", TRUE)
    /\ IF r.path = "fetch"
       THEN /\ requests' = requests \cup {getCryptoDataRequest("alerts")}
            /\ UNCHANGED alertVars
       ELSE /\ checkAlerts_price(k, Returned(r.value))
            /\ requests' = requests \cup Asked(k, Returned(r.value))

(* priceFeeds.js:212-238, alerts.js:212-235: the getCryptoData request of  *)
(* the cycle's resolver call has ended with resp.                          *)
checkAlerts_response(k, resp) ==
    LET r == Resume(inflight[1], getCryptoData(resp))
        out == IF r.thrown THEN Thrown(500) ELSE Returned(r.value) IN
    /\ cycles[k].pc = "price"
    /\ getCryptoDataRequest("alerts") \in requests
    /\ getCachedCryptoData_resume(1, resp)
    /\ checkAlerts_price(k, out)
    /\ requests' = (requests \ {getCryptoDataRequest("alerts")})
                       \cup Asked(k, out)

(* alerts.js:99-121: the market-context request of generateAlertAnalysis   *)
(* has been answered, or axios has rejected it after its timeout.          *)
checkAlerts_context(k, ok) ==
    /\ MarketContextRequest \in requests
    /\ checkAlerts_analysis(k, ok)
    /\ requests' = requests \ {MarketContextRequest}

(* axios rejects the request the alert cycle waits for when its timeout    *)
(* has run out.                                                            *)
checkAlerts_timeout(k) ==
    \E q \in requests :
        /\ q.by = "alerts" /\ q.timeout # NoTimeout
        /\ IF q = MarketContextRequest
           THEN /\ checkAlerts_context(k, FALSE)
                /\ UNCHANGED <<now, priceCache, lastRateLimitTime, inflight, ret>>
           ELSE checkAlerts_response(k, [kind |-> "error", price |-> 0])

----------------------------------------------------------------------------
(* Specifications *)

InitPrice ==
    /\ now = BootTime
    /\ realtimePrices = [s \in Symbols |-> NULL]
    /\ priceCache = [s \in Symbols |-> NULL]
    /\ lastRateLimitTime = 0
    /\ inflight = <<>>
    /\ ret = NoRet
    /\ seen429At = NoTime
    /\ polled = NoPoll

InitAlerts ==
    /\ priceAlerts = [c \in Chats |-> <<>>]
    /\ heap = <<>>
    /\ cycles = <<>>
    /\ sent = <<>>
    /\ evaluated = NoEval

InitAuto ==
    /\ baselines = [s \in Tracked |-> NoBaseline]
    /\ enabled = [c \in Chats |-> "unset"]
    /\ runs = <<>>
    /\ volSent = [c \in Chats |-> <<>>]
    /\ fired = <<>>

InitHang ==
    /\ poller = "idle"
    /\ requests = {}

Init == InitPrice /\ InitAlerts /\ InitAuto /\ InitHang

(* What one poll meets: CryptoCompare answers; CryptoCompare fails and     *)
(* CoinCap answers; both fail and CoinGecko answers the loop's request.    *)
PollOutcomes ==
    {<<TRUE, FALSE, Data(p), p>> : p \in Prices}
    \cup {<<FALSE, TRUE, Data(p), p>> : p \in Prices}
    \cup {<<FALSE, FALSE, r, 1>> : r \in Responses}

(* The price pipeline: the resolver, the poller and the clock. *)
PriceOnly == UNCHANGED <<seen429At, polled, alertVars, autoVars, hangVars>>

NextPrice ==
    \/ \E s \in Symbols, f \in BOOLEAN : getCachedCryptoData(s, f) /\ PriceOnly
    \/ \E i \in 1..Len(inflight), r \in Responses :
           getCachedCryptoData_resume(i, r) /\ PriceOnly
    \/ \E o \in PollOutcomes :
           fetchRealtimePrices(o[1], o[2], o[3], o[4]) /\ PriceOnly
    \/ \E t \in Instants : Tick(t) /\ PriceOnly

Spec == Init /\ [][NextPrice]_vars

(* The price pipeline, with HTTP 429 answers observed. *)
GateOnly == UNCHANGED <<polled, alertVars, autoVars, hangVars>>

NextGate ==
    \/ \E s \in Symbols, f \in BOOLEAN :
           getCachedCryptoData(s, f) /\ UNCHANGED seen429At /\ GateOnly
    \/ \E i \in 1..Len(inflight), r \in Responses :
           getCachedCryptoData_resume(i, r) /\ Observe429(r) /\ GateOnly
    \/ \E o \in PollOutcomes :
           /\ fetchRealtimePrices(o[1], o[2], o[3], o[4])
           /\ UNCHANGED seen429At /\ GateOnly
    \/ \E t \in Instants : Tick(t) /\ UNCHANGED seen429At /\ GateOnly

SpecGate == Init /\ [][NextGate]_vars

(* getCachedCryptoData as a function of the module state it reads: the    *)
(* realtime table, the cache and lastRateLimitTime are drawn from the      *)
(* values the code can write to them, 10 s after boot, the backoff gate    *)
(* armed or not; the poller and the clock run on from there.               *)
InitResolve ==
    /\ now = BootTime + 10000
    /\ realtimePrices \in [Symbols -> {NULL, Rec(2, BootTime + 10000, "coincap")}]
    /\ realtimePrices["DOGE"] = NULL
    /\ priceCache \in [Symbols -> {NULL, Rec(1, BootTime, "coingecko")}]
    /\ lastRateLimitTime \in {0, BootTime + 10000}
    /\ inflight = <<>>
    /\ ret = NoRet
    /\ seen429At = NoTime
    /\ polled = NoPoll
    /\ InitAlerts /\ InitAuto /\ InitHang

NextResolve ==
    \/ \E s \in Symbols, f \in BOOLEAN : getCachedCryptoData(s, f) /\ PriceOnly
    \/ \E i \in 1..Len(inflight), r \in Responses :
           getCachedCryptoData_resume(i, r) /\ PriceOnly
    \/ \E o \in PollOutcomes :
           fetchRealtimePrices(o[1], o[2], o[3], o[4]) /\ PriceOnly
    \/ \E t \in Instants : Tick(t) /\ PriceOnly

SpecResolve == InitResolve /\ [][NextResolve]_vars

(* The poller alone: poll cycles against sources that answer or fail in   *)
(* every combination, and the clock.                                       *)
NextPoll ==
    \/ \E o1 \in TierOutcomes, o2 \in TierOutcomes, r \in Responses, p \in Prices :
           /\ pollCycle(o1, o2, r, p)
           /\ UNCHANGED <<seen429At, alertVars, autoVars, hangVars>>
    \/ \E t \in Instants : Tick(t) /\ PriceOnly

SpecPoll == Init /\ [][NextPoll]_vars

(* The manual alerts: the commands and the checkAlerts cycles, which may   *)
(* overlap.  The resolver is the function handed to checkAlerts.           *)
AlertsOnly == UNCHANGED <<priceVars, polled, autoVars, hangVars>>

AlertsEnv ==
    \/ \E c \in Chats, t \in Targets, p \in Targets :
           alert(c, t, Data(p)) /\ AlertsOnly
    \/ \E c \in Chats :
           alert(c, 50000, [kind |-> "nodata", price |-> 0]) /\ AlertsOnly
    \/ \E c \in Chats : clearalerts(c) /\ AlertsOnly
    \/ \E k \in 1..Len(cycles) : checkAlerts_loop(k) /\ AlertsOnly
    \/ \E k \in 1..Len(cycles), out \in Answers :
           checkAlerts_price(k, out) /\ AlertsOnly
    \/ \E k \in 1..Len(cycles), ok \in BOOLEAN :
           checkAlerts_analysis(k, ok) /\ AlertsOnly
    \/ \E k \in 1..Len(cycles), ok \in BOOLEAN :
           checkAlerts_sent(k, ok) /\ AlertsOnly
    \/ \E k \in 1..Len(cycles) : checkAlerts_paced(k) /\ AlertsOnly

(* Cycles may overlap: setInterval starts one whether or not the last has *)
(* returned.                                                              *)
NextAlerts == AlertsEnv \/ (checkAlerts /\ AlertsOnly)

SpecAlerts == Init /\ [][NextAlerts]_vars

(* A cycle starts only when the one before has ended. *)
NextAlertsSeq == AlertsEnv \/ (cycles = <<>> /\ checkAlerts /\ AlertsOnly)

SpecAlertsSeq == Init /\ [][NextAlertsSeq]_vars

(* The auto-volatility alerts: the poller's writes, the clock, /autoalerts *)
(* and the evaluator.                                                      *)
AutoOnly == UNCHANGED <<alertVars, seen429At, polled, hangVars>>

AutoEnv(quotes, instants) ==
    \/ \E p \in quotes :
           /\ fetchRealtimePrices(TRUE, FALSE, Data(p), p)
           /\ UNCHANGED autoVars /\ AutoOnly
    \/ \E t \in instants : Tick(t) /\ UNCHANGED autoVars /\ AutoOnly
    \/ \E c \in Chats : autoalerts(c) /\ UNCHANGED priceVars /\ AutoOnly
    \/ \E k \in 1..Len(runs), ok \in BOOLEAN :
           checkAutoVolatilityAlerts_sent(k, ok) /\ UNCHANGED priceVars /\ AutoOnly
    \/ \E k \in 1..Len(runs) :
           checkAutoVolatilityAlerts_paced(k) /\ UNCHANGED priceVars /\ AutoOnly

(* Cycles may overlap. *)
NextAuto ==
    \/ AutoEnv({1000, 1035}, {BootTime, BootTime + 600000,
                              BootTime + AUTO_ALERT_COOLDOWN + 60000})
    \/ \E s \in Tracked :
           checkAutoVolatilityAlerts(s) /\ UNCHANGED priceVars /\ AutoOnly

SpecAuto == Init /\ [][NextAuto]_vars

(* A cycle starts only when the one before has ended. *)
NextAutoSeq ==
    \/ AutoEnv(AutoPrices, AutoInstants)
    \/ \E s \in Tracked :
           /\ runs = <<>>
           /\ checkAutoVolatilityAlerts(s) /\ UNCHANGED priceVars /\ AutoOnly

SpecAutoSeq == Init /\ [][NextAutoSeq]_vars

(* The two timers with every request they wait for: a source may leave a   *)
(* request unanswered for ever.  What is sure to happen: axios rejects a   *)
(* request that has a timeout, the delays end, the event loop runs the     *)
(* continuation of an answered call, and Telegram answers sendMessage.     *)
PollSteps == UNCHANGED <<now, priceCache, lastRateLimitTime, inflight, ret,
                         seen429At, polled, alertVars, autoVars>>
AlertSteps == UNCHANGED <<realtimePrices, seen429At, polled, autoVars, poller>>
AlertStepsOnly == UNCHANGED <<priceVars, polled, autoVars, poller>>

(* What CoinGecko answers when it answers: a quote or a failure. *)
HangResponses == {Data(1), [kind |-> "error", price |-> 0]}

Hang_pollTimeout == fetchRealtimePrices_timeout /\ PollSteps
Hang_pollDelayed == fetchRealtimePrices_delayed /\ PollSteps
Hang_loop == \E k \in 1..Len(cycles) :
                 checkAlerts_loop(k) /\ AlertStepsOnly /\ UNCHANGED requests
Hang_resolve == \E k \in 1..Len(cycles) : checkAlerts_resolve(k) /\ AlertSteps
Hang_alertTimeout ==
    \E k \in 1..Len(cycles) : checkAlerts_timeout(k) /\ AlertSteps
Hang_sent == \E k \in 1..Len(cycles), ok \in BOOLEAN :
                 checkAlerts_sent(k, ok) /\ AlertStepsOnly /\ UNCHANGED requests
Hang_paced == \E k \in 1..Len(cycles) :
                  checkAlerts_paced(k) /\ AlertStepsOnly /\ UNCHANGED requests

NextHang ==
    \/ fetchRealtimePrices_start /\ PollSteps
    \/ \E o \in TierOutcomes, r \in HangResponses :
           fetchRealtimePrices_response(o, r, 1) /\ PollSteps
    \/ Hang_pollTimeout
    \/ Hang_pollDelayed
    \/ \E c \in Chats :
           alert(c, 50000, Data(60000)) /\ AlertStepsOnly /\ UNCHANGED requests
    \/ cycles = <<>> /\ checkAlerts /\ AlertStepsOnly /\ UNCHANGED requests
    \/ Hang_loop
    \/ Hang_resolve
    \/ \E k \in 1..Len(cycles), r \in HangResponses :
           checkAlerts_response(k, r) /\ AlertSteps
    \/ \E k \in 1..Len(cycles), ok \in BOOLEAN :
           checkAlerts_context(k, ok) /\ AlertStepsOnly
    \/ Hang_alertTimeout
    \/ Hang_sent
    \/ Hang_paced
    \/ \E t \in {BootTime + PRICE_FRESHNESS_WINDOW} :
           Tick(t) /\ PriceOnly

FairHang ==
    /\ WF_vars(Hang_pollTimeout) /\ WF_vars(Hang_pollDelayed)
    /\ WF_vars(Hang_loop) /\ WF_vars(Hang_resolve)
    /\ WF_vars(Hang_alertTimeout)
    /\ WF_vars(Hang_sent) /\ WF_vars(Hang_paced)

SpecHang == Init /\ [][NextHang]_vars /\ FairHang

(* The same, with the alert-check timer itself fair: setInterval           *)
(* (alerts.js:258-260) calls checkAlerts again and again.                  *)
Hang_timer ==
    cycles = <<>> /\ checkAlerts /\ AlertStepsOnly /\ UNCHANGED requests

SpecTimer == Init /\ [][NextHang]_vars /\ FairHang /\ WF_vars(Hang_timer)

(* Every callback that touches the shared state: the poll timer, the       *)
(* alert-check timer with its resolver calls and its volatility pass, the  *)
(* commands /alert and /clearalerts, and the on-demand resolver calls of   *)
(* /price (forceRefresh left false), here for a coin the poller does not   *)
(* track.                                                                  *)
OnDemand == getCryptoDataRequest("alerts") \notin requests

NextOwners ==
    \/ \E p \in Prices : fetchRealtimePrices(TRUE, FALSE, Data(p), p) /\ PriceOnly
    \/ OnDemand /\ getCachedCryptoData("DOGE", FALSE) /\ PriceOnly
    \/ \E i \in 1..Len(inflight), r \in HangResponses :
           OnDemand /\ getCachedCryptoData_resume(i, r) /\ PriceOnly
    \/ alert(1, 50000, Data(60000)) /\ AlertStepsOnly /\ UNCHANGED requests
    \/ clearalerts(1) /\ AlertStepsOnly /\ UNCHANGED requests
    \/ cycles = <<>> /\ checkAlerts /\ AlertStepsOnly /\ UNCHANGED requests
    \/ Hang_loop
    \/ inflight = <<>> /\ Hang_resolve
    \/ \E k \in 1..Len(cycles), r \in HangResponses :
           checkAlerts_response(k, r) /\ AlertSteps
    \/ \E k \in 1..Len(cycles), ok \in BOOLEAN :
           checkAlerts_context(k, ok) /\ AlertStepsOnly
    \/ Hang_sent
    \/ Hang_paced
    \/ \E sym \in Tracked :
           /\ runs = <<>>
           /\ checkAutoVolatilityAlerts(sym) /\ UNCHANGED priceVars /\ AutoOnly
    \/ \E k \in 1..Len(runs) :
           checkAutoVolatilityAlerts_paced(k) /\ UNCHANGED priceVars /\ AutoOnly

SpecOwners == Init /\ [][NextOwners]_vars

(* Resolver calls that overlap: /price, /alert's checks, the news pipeline *)
(* and the alert timer all call getCachedCryptoData, and nothing keeps a   *)
(* second call from starting while the cold fetch of a first is awaited.   *)
MaxRacing == 2          \* overlapping getCachedCryptoData calls

NextRace ==
    \/ \E s \in Symbols, f \in BOOLEAN :
           getCachedCryptoData_call(s, f, MaxRacing) /\ PriceOnly
    \/ \E i \in 1..Len(inflight), r \in HangResponses :
           getCachedCryptoData_resume(i, r) /\ PriceOnly
    \/ fetchRealtimePrices(TRUE, FALSE, Data(2), 2) /\ PriceOnly
    \/ \E t \in Instants : Tick(t) /\ PriceOnly

SpecRace == Init /\ [][NextRace]_vars

----------------------------------------------------------------------------
(* Properties *)

(* C1.  Backoff gate is global: once a cold fetch has received HTTP 429 at *)
(* time t, no getCachedCryptoData call that starts in                      *)
(* [t, t + RATE_LIMIT_BACKOFF), for whatever symbol and forceRefresh,      *)
(* issues a cold fetch.                                                    *)
C1_BackoffGateGlobal ==
    (ret.step = "call" /\ ret.path = "fetch")
        => ~(/\ seen429At # NoTime
             /\ ret.at >= seen429At
             /\ ret.at - seen429At < RATE_LIMIT_BACKOFF)

(* C2.  At-most-once trigger: the trigger message of an alert is handed to *)
(* bot.sendMessage at most once, whatever cycles run or overlap.           *)
C2_AtMostOnceTrigger == \A id \in 1..Len(sent) : Len(sent[id]) <= 1

(* C3.  Freshness precedence: a call made while realtimePrices holds an    *)
(* entry of the symbol younger than PRICE_FRESHNESS_WINDOW returns that    *)
(* entry and issues no cold fetch, whatever the cache, the backoff state   *)
(* and forceRefresh; an entry whose age is the window or more is not       *)
(* returned on that ground.                                                *)
C3_FreshnessPrecedence ==
    ret.step = "call" =>
        LET e == realtimePrices[ret.sym] IN
        /\ (e # NULL /\ ret.at - e.timestamp < PRICE_FRESHNESS_WINDOW)
               => (ret.path = "realtime" /\ ret.value = e)
        /\ (e # NULL /\ ret.at - e.timestamp >= PRICE_FRESHNESS_WINDOW)
               => ret.path # "realtime"

C3_Witness ==
    /\ ret.step = "call" /\ ret.force /\ ret.path = "realtime"
    /\ ret.value = realtimePrices[ret.sym]
    /\ now - realtimePrices[ret.sym].timestamp = 10000
    /\ priceCache[ret.sym] # NULL

C5_CrossingRule ==
    (evaluated.out = "data" /\ evaluated.was = "active") =>
        LET a == heap[evaluated.id]
            c == evaluated.price IN
        (a.status = "triggered")
            <=> \/ a.targetPrice > a.currentPrice /\ c >= a.targetPrice
                \/ ~(a.targetPrice > a.currentPrice) /\ c <= a.targetPrice

(* C6.  Direction stability: no step changes the targetPrice or the        *)
(* creation price of an alert, so the direction of its crossing test       *)
(* stays the one it had at creation.                                       *)
Direction(a) ==
    IF a.targetPrice > a.currentPrice THEN "up"
    ELSE IF a.targetPrice < a.currentPrice THEN "down" ELSE "none"

C6_DirectionStable ==
    [][\A id \in 1..Len(heap) :
           /\ id <= Len(heap')
           /\ heap'[id].targetPrice = heap[id].targetPrice
           /\ heap'[id].currentPrice = heap[id].currentPrice
           /\ Direction(heap'[id]) = Direction(heap[id])]_vars

C6_Witness ==
    \E id \in 1..Len(heap) :
        /\ heap[id].status = "triggered"
        /\ heap[id].triggerPrice # heap[id].currentPrice
        /\ heap[id].targetPrice = 60000 /\ heap[id].currentPrice = 50000

(* C7.  Cooldown, sequential cycles: after a volatility alert fired at t   *)
(* and rebased to p, an evaluation that sees a move of at least the        *)
(* threshold from p neither fires nor changes the baseline at a time       *)
(* <= t + cooldown, and fires at a time > t + cooldown; when the broadcast *)
(* of a fire is over the baseline is the price and time of that fire, and  *)
(* two fires are more than the cooldown apart.                             *)
C7_Step ==
    LET b == baselines["BTC"]
        p == realtimePrices["BTC"].price
        moved == Abs(p - b.lastAlertPrice) * 100
                     >= AUTO_ALERT_THRESHOLD * b.lastAlertPrice IN
    /\ (Len(runs') > Len(runs) /\ b.lastAlertTime > 0 /\ moved) =>
           IF now <= b.lastAlertTime + AUTO_ALERT_COOLDOWN
           THEN fired' = fired /\ baselines' = baselines /\ volSent' = volSent
           ELSE fired' = Log(fired, [at |-> now, price |-> p])
    /\ (fired' # <<>> /\ (runs' = <<>> \/ runs'[1].pc = "pace")) =>
           baselines'["BTC"] = [lastAlertPrice |-> fired'[Len(fired')].price,
                                lastAlertTime |-> fired'[Len(fired')].at]
    /\ Len(fired') = 2 => fired'[2].at - fired'[1].at > AUTO_ALERT_COOLDOWN

C7_CooldownSequential == [][C7_Step]_vars

C7_Witness ==
    /\ fired = <<[at |-> BootTime, price |-> 1035],
                 [at |-> BootTime + AUTO_ALERT_COOLDOWN + 60000, price |-> 1071]>>
    /\ baselines["BTC"] = [lastAlertPrice |-> 1071,
                           lastAlertTime |-> BootTime + AUTO_ALERT_COOLDOWN + 60000]
    /\ Len(volSent[1]) = 2

(* C8.  Cooldown per coin and chat: two volatility messages for the coin   *)
(* sent to one chat are more than AUTO_ALERT_COOLDOWN apart, also when     *)
(* cycles overlap.                                                         *)
C8_CooldownPerChat ==
    \A c \in Chats :
        Len(volSent[c]) = 2 => volSent[c][2] - volSent[c][1] > AUTO_ALERT_COOLDOWN

(* C9.  A rate-limit answer is not an error: a call whose cold fetch       *)
(* received HTTP 429 returns the symbol's cache entry if there is one,     *)
(* else its realtime entry, else null, and does not throw.                 *)
C9_RateLimitFallsBack ==
    (ret.step = "resume" /\ ret.resp = "429") =>
        /\ ~ret.thrown
        /\ ret.value = IF priceCache[ret.sym] # NULL THEN priceCache[ret.sym]
                       ELSE realtimePrices[ret.sym]

(* C10.  Other errors propagate: a call whose cold fetch failed with an    *)
(* error that is not a rate limit throws it to its caller.                 *)
C10_OtherErrorsPropagate ==
    (ret.step = "resume" /\ ret.resp = "error") => ret.thrown

(* C11.  Graceful degradation: a call whose cold fetch failed because the  *)
(* upstream API is down, made while the cache holds an entry for the       *)
(* symbol (of whatever age), returns that entry, not null or an error.     *)
C11_GracefulDegradation ==
    (ret.step = "resume" /\ ret.resp = "error" /\ priceCache[ret.sym] # NULL)
        => (~ret.thrown /\ ret.value = priceCache[ret.sym])

(* C15.  An alert whose targetPrice equals its creation price is triggered *)
(* by the first evaluation that sees a price at or below the target.       *)
C15_EqualTargetTriggers ==
    (/\ evaluated.out = "data" /\ evaluated.was = "active"
     /\ heap[evaluated.id].targetPrice = heap[evaluated.id].currentPrice
     /\ evaluated.price <= heap[evaluated.id].targetPrice)
        => heap[evaluated.id].status = "triggered"

(* C19.  A triggered alert is never re-evaluated: no crossing test is made *)
(* for an alert whose status is already triggered, also when cycles        *)
(* overlap.                                                                *)
C19_TriggeredNeverReevaluated ==
    evaluated.out = "data" => evaluated.was = "active"

(* C12.  forceRefresh: a call with forceRefresh true is never served from  *)
(* the warm cache (with no fresh realtime entry and no active backoff it   *)
(* goes to the cold fetch, however young the cache entry), but it returns  *)
(* the fresh realtime entry when there is one, and it issues no cold fetch *)
(* while the backoff gate is active.                                       *)
C12_ForceRefresh ==
    (ret.step = "call" /\ ret.force) =>
        LET rt == realtimePrices[ret.sym]
            fresh == rt # NULL /\ ret.at - rt.timestamp < PRICE_FRESHNESS_WINDOW
            gate == ret.at - lastRateLimitTime < RATE_LIMIT_BACKOFF IN
        /\ fresh => (ret.value = rt /\ ret.path # "fetch")
        /\ (~fresh /\ gate) => ret.path # "fetch"
        /\ (~fresh /\ ~gate) => (ret.path = "fetch" /\ ret.value = NULL)

C12_Witness ==
    /\ ret.step = "call" /\ ret.force /\ ret.path = "fetch"
    /\ priceCache[ret.sym] # NULL
    /\ ret.at - priceCache[ret.sym].timestamp < CACHE_DURATION

(* C16.  Backoff fallback order: a call made while the backoff gate is     *)
(* active and the symbol has no fresh realtime entry returns the cache     *)
(* entry if there is one, whatever its age and even if the realtime entry  *)
(* is newer, else the realtime entry whatever its age, else null; it       *)
(* issues no cold fetch and changes neither the cache nor                  *)
(* lastRateLimitTime.                                                      *)
C16_Step ==
    LET rt == realtimePrices[ret'.sym]
        cached == priceCache[ret'.sym] IN
    (/\ ret'.step = "call"
     /\ ~(rt # NULL /\ now - rt.timestamp < PRICE_FRESHNESS_WINDOW)
     /\ now - lastRateLimitTime < RATE_LIMIT_BACKOFF)
        => /\ ret'.value = IF cached # NULL THEN cached ELSE rt
           /\ ~ret'.thrown
           /\ inflight' = inflight
           /\ priceCache' = priceCache
           /\ lastRateLimitTime' = lastRateLimitTime

C16_BackoffFallbackOrder == [][C16_Step]_vars

C16_Witness ==
    /\ ret.step = "call" /\ ret.path = "backoff"
    /\ priceCache[ret.sym] # NULL /\ realtimePrices[ret.sym] # NULL
    /\ ret.value = priceCache[ret.sym]
    /\ ret.at - priceCache[ret.sym].timestamp >= CACHE_DURATION
    /\ realtimePrices[ret.sym].timestamp > priceCache[ret.sym].timestamp

(* C13.  The poller never throws: whatever way the three sources fail or  *)
(* answer, a poll cycle ends without an exception leaving                  *)
(* fetchRealtimePrices.                                                    *)
C13_PollerNeverThrows == polled # NoPoll => ~polled.thrown

C13_Witness ==
    /\ polled.contacted = <<Contact("cryptocompare", "malformed"),
                            Contact("coincap", "non200"),
                            Contact("coingecko", "error")>>
    /\ ~polled.thrown
    /\ realtimePrices["BTC"] = NULL

(* C17.  Poll priority order: a poll cycle contacts CryptoCompare first,   *)
(* CoinCap only after CryptoCompare has reported failure, and the          *)
(* CoinGecko loop only after both have; a cycle whose CryptoCompare        *)
(* request succeeds contacts neither of the others.                        *)
C17_PollPriorityOrder ==
    polled # NoPoll =>
        LET c == polled.contacted IN
        /\ Len(c) \in 1..3
        /\ c[1].source = "cryptocompare"
        /\ Len(c) >= 2 => (c[2].source = "coincap" /\ c[1].outcome # "ok")
        /\ Len(c) = 3 => (c[3].source = "coingecko" /\ c[2].outcome # "ok")
        /\ c[1].outcome = "ok" => Len(c) = 1
        /\ (Len(c) >= 2 /\ c[2].outcome = "ok") => Len(c) = 2

C17_Witness ==
    /\ polled.contacted = <<Contact("cryptocompare", "neterr"),
                            Contact("coincap", "ok")>>
    /\ realtimePrices["BTC"] # NULL
    /\ realtimePrices["BTC"].source = "coincap"
    /\ realtimePrices["BTC"].timestamp = now

(* C14.  /clearalerts removes every alert of the chat, active and         *)
(* triggered, and changes nothing else: a step that removes an alert from  *)
(* a chat's list empties that list and leaves the lists and the alerts of  *)
(* the other chats, the auto-alert flags, the baselines, the price cache   *)
(* and the realtime table as they were.                                    *)
C14_Step ==
    \A c \in Chats :
        Len(priceAlerts'[c]) < Len(priceAlerts[c]) =>
            /\ priceAlerts'[c] = <<>>
            /\ \A d \in Chats \ {c} :
                   /\ priceAlerts'[d] = priceAlerts[d]
                   /\ \A j \in 1..Len(priceAlerts[d]) :
                          heap'[priceAlerts[d][j]] = heap[priceAlerts[d][j]]
            /\ enabled' = enabled /\ baselines' = baselines
            /\ priceCache' = priceCache /\ realtimePrices' = realtimePrices

C14_ClearAlertsFrame == [][C14_Step]_vars

C14_Witness ==
    /\ Len(heap) = 2
    /\ heap[1].chat = 1 /\ heap[1].status = "triggered"
    /\ priceAlerts[1] = <<>>
    /\ heap[2].chat = 2 /\ priceAlerts[2] = <<2>>

(* Where a cycle stands once it has gone on from the alert at the head of  *)
(* its snapshot without a pacing delay: at the next alert of the snapshot, *)
(* else at the first active alert of the next chat that has one, else at   *)
(* its end.                                                                *)
HasActive(c) ==
    \E j \in 1..Len(priceAlerts[c]) : heap[priceAlerts[c][j]].status = "active"

WentOn(cyc) ==
    LET later == {i \in 1..Len(cyc.keys) : HasActive(cyc.keys[i])} IN
    IF Len(cyc.todo) > 1
    THEN /\ Len(cycles') = 1
         /\ cycles'[1].pc = "price"
         /\ cycles'[1].chat = cyc.chat
         /\ cycles'[1].todo = Tail(cyc.todo)
    ELSE IF later = {}
    THEN cycles' = <<>>
    ELSE LET i == CHOOSE x \in later : \A y \in later : x <= y IN
         /\ Len(cycles') = 1
         /\ cycles'[1].pc = "price"
         /\ cycles'[1].chat = cyc.keys[i]
         /\ heap[Head(cycles'[1].todo)].status = "active"

(* C18.  Skip on resolver failure: when the resolver returns null or       *)
(* throws for an alert, the alert is unchanged, nothing is sent for it,    *)
(* and the cycle goes on to the remaining alerts of the chat and of the    *)
(* later chats.                                                            *)
C18_Step ==
    evaluated'.out \in {"null", "thrown"} =>
        /\ Head(cycles[1].todo) = evaluated'.id
        /\ heap' = heap
        /\ sent' = sent
        /\ priceAlerts' = priceAlerts
        /\ WentOn(cycles[1])

C18_SkipOnResolverFailure == [][C18_Step]_vars

C18_Witness ==
    /\ evaluated.out = "thrown"
    /\ heap[evaluated.id].status = "active" /\ heap[evaluated.id].chat = 1
    /\ sent[evaluated.id] = <<>>
    /\ Len(cycles) = 1 /\ cycles[1].pc = "price" /\ cycles[1].chat = 2

(* C20.  Sink failure: when bot.sendMessage fails for a triggered alert,   *)
(* the alert stays triggered, the cycle goes on to the other alerts, and   *)
(* no later cycle hands the alert's message to the sink again (a           *)
(* triggered alert never becomes active again, and no alert's message is   *)
(* handed over twice).                                                     *)
C20_Step ==
    /\ evaluated'.out = "sendFailed" =>
           /\ Head(cycles[1].todo) = evaluated'.id
           /\ heap' = heap
           /\ heap[evaluated'.id].status = "triggered"
           /\ sent' = sent
           /\ WentOn(cycles[1])
    /\ \A id \in 1..Len(heap) :
           heap[id].status = "triggered" => heap'[id].status = "triggered"
    /\ \A id \in 1..Len(sent') : Len(sent'[id]) <= 1

Seeding(stamp) ==
    baselines["BTC"] = NoBaseline =>
        /\ volSent' = volSent
        /\ fired' = fired
        /\ Len(runs') <= Len(runs)
        /\ baselines'["BTC"] # NoBaseline =>
               /\ realtimePrices["BTC"] # NULL
               /\ baselines'["BTC"].lastAlertPrice = realtimePrices["BTC"].price
               /\ baselines'["BTC"].lastAlertTime = stamp

(* C21, as amended.  Baseline seeding: the first evaluation that finds the *)
(* coin in the realtime table without a baseline creates the baseline with *)
(* lastAlertPrice the current price and lastAlertTime 0 (no alert so far), *)
(* and sends no notification for the coin.                                 *)
C21_SeedsAtZero == [][Seeding(0)]_vars

C21_Witness ==
    /\ baselines["BTC"] = [lastAlertPrice |-> 1035, lastAlertTime |-> 0]
    /\ realtimePrices["BTC"].price = 1035
    /\ enabled[1] = "on"
    /\ volSent[1] = <<>> /\ fired = <<>> /\ runs = <<>>

(* C21, as stated.  Baseline seeding: the first evaluation that finds the  *)
(* coin in the realtime table without a baseline creates the baseline with *)
(* lastAlertPrice the current price and the last-alert time the current    *)
(* time, and sends no notification for the coin.                           *)
C21_SeedsAtNow == [][Seeding(now)]_vars

(* C22.  Chain of relative triggers: an evaluation of a coin that has a    *)
(* baseline fires exactly when the price has moved by the threshold or     *)
(* more from baseline.lastAlertPrice and more than the cooldown has passed *)
(* since baseline.lastAlertTime; a fire makes the baseline the price and   *)
(* time of that evaluation, no fire leaves it unchanged; so each fire is a *)
(* threshold-sized move away from the price of the fire before it.         *)
C22_Step ==
    LET b == baselines["BTC"]
        p == realtimePrices["BTC"].price
        moved == Abs(p - b.lastAlertPrice) * 100
                     >= AUTO_ALERT_THRESHOLD * b.lastAlertPrice
        cooled == now - b.lastAlertTime > AUTO_ALERT_COOLDOWN IN
    /\ (Len(runs') > Len(runs) /\ b # NoBaseline) =>
           IF moved /\ cooled
           THEN /\ fired' = Log(fired, [at |-> now, price |-> p])
                /\ runs'[Len(runs')].pc = "pace" =>
                       baselines'["BTC"] = [lastAlertPrice |-> p,
                                            lastAlertTime |-> now]
           ELSE fired' = fired /\ baselines' = baselines /\ volSent' = volSent
    /\ \A k \in 1..Len(runs) :
           (runs[k].pc = "send" /\ Len(runs') = Len(runs)
                /\ runs'[k].pc = "pace") =>
               baselines'["BTC"] = [lastAlertPrice |-> runs[k].price,
                                    lastAlertTime |-> runs[k].at]
    /\ Len(fired') = 2 =>
           Abs(fired'[2].price - fired'[1].price) * 100
               >= AUTO_ALERT_THRESHOLD * fired'[1].price

C22_ChainOfRelativeTriggers == [][C22_Step]_vars

C24_FastPathNotOlderThanCache ==
    (ret.step = "call" /\ ret.path = "realtime"
         /\ priceCache[ret.sym] # NULL)
        => priceCache[ret.sym].timestamp <= ret.value.timestamp

C24_Witness ==
    /\ ret.step = "call" /\ ret.path = "realtime" /\ ret.force
    /\ ret.value = realtimePrices[ret.sym]
    /\ priceCache[ret.sym] # NULL
    /\ priceCache[ret.sym].timestamp < ret.value.timestamp
    /\ ret.at - priceCache[ret.sym].timestamp < CACHE_DURATION

(* C25.  Every poll cycle and every alert-check cycle that starts          *)
(* completes even if a source never answers: every request a cycle waits   *)
(* for, the getCryptoData request of the cold fetch and of the CoinGecko   *)
(* poll loop included, is bounded by a timeout.                            *)
C25_CyclesComplete ==
    /\ (poller # "idle") ~> (poller = "idle")
    /\ (cycles # <<>>) ~> (cycles = <<>>)

(* What holds of every callback: a step that writes the realtime table is  *)
(* no resolver, command or alert-check step, and a step that writes a      *)
(* baseline is no resolver, command or poll step.                          *)
TimerOwned ==
    /\ realtimePrices' # realtimePrices =>
           /\ inflight' = inflight /\ priceCache' = priceCache
           /\ priceAlerts' = priceAlerts /\ heap' = heap /\ cycles' = cycles
           /\ baselines' = baselines /\ runs' = runs
    /\ baselines' # baselines =>
           /\ inflight' = inflight /\ priceCache' = priceCache
           /\ priceAlerts' = priceAlerts /\ heap' = heap
           /\ realtimePrices' = realtimePrices

(* C26, as amended.  The realtime table is written only by the poll timer  *)
(* and the baselines only by the alert-check timer; the fields of an       *)
(* existing alert are written only by the alert-check timer, while the     *)
(* alert lists are written by the /alert and /clearalerts handlers; the    *)
(* cache and lastRateLimitTime are written only inside the resolver, by    *)
(* every call whose cold fetch returns, on-demand calls included.          *)
C26_Step ==
    /\ TimerOwned
    /\ Len(heap') >= Len(heap)
    /\ \A id \in 1..Len(heap) :
           heap'[id] # heap[id] =>
               /\ cycles # <<>>
               /\ evaluated'.out = "data" /\ evaluated'.id = id
               /\ priceAlerts' = priceAlerts
    /\ priceAlerts' # priceAlerts =>
           /\ cycles' = cycles
           /\ heap' \in {heap, Append(heap, heap'[Len(heap')])}
    /\ priceCache' # priceCache => Len(inflight') < Len(inflight)
    /\ lastRateLimitTime' # lastRateLimitTime => Len(inflight') < Len(inflight)

C26_Writers == [][C26_Step]_vars

C26_Witness ==
    /\ priceCache["DOGE"] # NULL /\ priceCache["BTC"] # NULL
    /\ requests = {} /\ cycles = <<>>
    /\ Len(heap) = 2 /\ heap[1].status = "triggered" /\ heap[2].status = "active"
    /\ priceAlerts[1] = <<2>>
    /\ realtimePrices["BTC"] # NULL
    /\ baselines["BTC"] # NoBaseline

(* C26, as stated.  Sole mutators: what a timer writes no other callback   *)
(* writes: the realtime table is written only by the poll timer; the alert *)
(* store, the baselines and, through the resolver, the cache and           *)
(* lastRateLimitTime only by the alert-check timer, by no command handler  *)
(* and no on-demand resolver call.                                         *)
C26_SoleStep ==
    /\ TimerOwned
    /\ (priceAlerts' # priceAlerts \/ heap' # heap) =>
           (cycles # <<>> /\ evaluated'.out = "data")
    /\ (priceCache' # priceCache \/ lastRateLimitTime' # lastRateLimitTime) =>
           getCryptoDataRequest("alerts") \in requests

C26_SoleMutators == [][C26_SoleStep]_vars

(* C27.  Write ownership: the realtime table changes only in a poll cycle  *)
(* and no resolver call writes it; the cache changes only when the cold    *)
(* fetch of a resolver call has succeeded, so a call resolved by the fast  *)
(* path, the backoff path or the warm-cache path, and every poll cycle,    *)
(* leave the cache and lastRateLimitTime unchanged.                        *)
C27_Step ==
    /\ ret'.step # "none" => realtimePrices' = realtimePrices
    /\ realtimePrices' # realtimePrices =>
           /\ ret'.step = "none" /\ inflight' = inflight
           /\ priceCache' = priceCache
           /\ lastRateLimitTime' = lastRateLimitTime
    /\ priceCache' # priceCache =>
           /\ ret'.step = "resume" /\ ret'.resp = "data" /\ ~ret'.thrown
           /\ priceCache'[ret'.sym] =
                  [price |-> ret'.value.price, timestamp |-> ret'.at,
                   source |-> "coingecko"]
           /\ \A s \in Symbols \ {ret'.sym} : priceCache'[s] = priceCache[s]
    /\ (ret'.step = "call" /\ ret'.path \in {"realtime", "backoff", "cache"}) =>
           /\ inflight' = inflight
           /\ priceCache' = priceCache
           /\ lastRateLimitTime' = lastRateLimitTime

C27_WriteOwnership == [][C27_Step]_vars

C27_Witness ==
    /\ ret.step = "call" /\ ret.path = "backoff"
    /\ priceCache[ret.sym] = Rec(1, BootTime, "coingecko")
    /\ realtimePrices[ret.sym] # NULL
    /\ realtimePrices[ret.sym].source = "cryptocompare"
    /\ inflight = <<>>

(* C28.  Cache entries are never evicted: a symbol that has a cache entry  *)
(* has one in every later state, whatever resolver calls, failed or        *)
(* rate-limited cold fetches, poll cycles and expirations follow.          *)
C28_NeverEvicted ==
    [][\A s \in Symbols : priceCache[s] # NULL => priceCache'[s] # NULL]_vars

C28_Witness ==
    /\ ret.step = "resume" /\ ret.resp \in {"error", "429"}
    /\ priceCache[ret.sym] # NULL
    /\ now - priceCache[ret.sym].timestamp >= CACHE_DURATION

(* C29.  No data: a call whose cold fetch finds no data for the symbol     *)
(* returns null without throwing, writes no cache entry and leaves the     *)
(* cache and lastRateLimitTime as they were.                               *)
C29_Step ==
    (ret'.step = "resume" /\ ret'.resp = "nodata") =>
        /\ ret'.value = NULL /\ ~ret'.thrown
        /\ priceCache' = priceCache
        /\ lastRateLimitTime' = lastRateLimitTime

C29_NoData == [][C29_Step]_vars

C29_Witness ==
    /\ ret.step = "resume" /\ ret.resp = "nodata" /\ ret.value = NULL
    /\ priceCache[ret.sym] # NULL
    /\ priceCache["DOGE"] = NULL

(* C30.  Every non-null result of a resolver call is a complete price      *)
(* record with a timestamp and a source tag, on every path: realtime fast  *)
(* path, backoff fallback, warm cache and successful cold fetch.           *)
C30_CompleteRecord ==
    (ret.step \in {"call", "resume"} /\ ~ret.thrown /\ ret.value # NULL) =>
        /\ ret.value.timestamp # NoTime
        /\ ret.value.source \in {"cryptocompare", "coincap",
                                 "coingecko-fallback", "coingecko"}

(* C31.  Enrichment failure does not block delivery: when an alert has     *)
(* triggered and the market-context request of its analysis fails or times *)
(* out, the alert stays triggered and its notification is handed to the    *)
(* sink for the chat of the loop in the same cycle, which goes on to wait  *)
(* for the sink's answer.                                                  *)
C31_Step ==
    evaluated'.out = "contextFailed" =>
        LET id == evaluated'.id IN
        /\ cycles[1].pc = "analysis" /\ Head(cycles[1].todo) = id
        /\ heap[id].status = "triggered" /\ heap'[id].status = "triggered"
        /\ sent'[id] = Append(sent[id], cycles[1].chat)
        /\ Len(cycles') = Len(cycles) /\ cycles'[1].pc = "send"
        /\ Head(cycles'[1].todo) = id

C31_EnrichmentFailureDelivers == [][C31_Step]_vars

C31_Witness ==
    /\ evaluated.out = "contextFailed"
    /\ heap[evaluated.id].status = "triggered"
    /\ heap[evaluated.id].triggerPrice = 60000
    /\ sent[evaluated.id] = <<2>>
    /\ cycles # <<>> /\ cycles[1].pc = "send"

(* C32.  No notification after clear: a trigger notification is handed to  *)
(* the sink only for an alert that is still stored under its chat, so once *)
(* /clearalerts has removed a chat's alerts no cycle, not even one that    *)
(* started before the clear, sends a notification for any of them.         *)
Stored(id) ==
    \E i \in 1..Len(priceAlerts[heap[id].chat]) :
        priceAlerts[heap[id].chat][i] = id

C32_NoNotificationAfterClear ==
    [][\A id \in 1..Len(sent) : sent'[id] # sent[id] => Stored(id)]_vars

(* C33.  Across every interleaving of overlapping resolver calls for one   *)
(* symbol, the timestamp of the symbol's cache entry never decreases from  *)
(* one cache write to the next.                                            *)
C33_CacheStampMonotone ==
    [][\A s \in Symbols :
           (priceCache[s] # NULL /\ priceCache'[s] # NULL) =>
               priceCache'[s].timestamp >= priceCache[s].timestamp]_vars

(* C34.  Liveness of triggering: with the alert-check timer fair, an       *)
(* alert that is stored and never cleared, whose every resolver call       *)
(* returns a price, and for which every price returned satisfies the       *)
(* crossing rule, is eventually triggered.                                 *)
AtPrice(id) ==
    \E k \in 1..Len(cycles) :
        cycles[k].pc = "price" /\ Head(cycles[k].todo) = id

PriceReturned(id) == evaluated.id = id /\ evaluated.out = "data"

IsTriggered(id) == id <= Len(heap) /\ heap[id].status = "triggered"

C35_GateInactiveAtStart ==
    (ret.step = "call" /\ lastRateLimitTime = 0) => ret.path # "backoff"

C35_Witness ==
    /\ ret.step = "call" /\ ret.path = "fetch" /\ ret.force
    /\ lastRateLimitTime = 0
    /\ ret.at = BootTime + 10000
    /\ priceCache[ret.sym] # NULL
    /\ IsWarm(priceCache[ret.sym], ret.at)

(* C36.  Batch atomicity on failure: a batch source that reports failure   *)
(* for a poll cycle has written no entry during it, so an entry the cycle  *)
(* has written carries the source of the tier that reported success, or    *)
(* of the CoinGecko loop.                                                  *)
C36_Step ==
    realtimePrices' # realtimePrices =>
        LET c == polled'.contacted
            src == realtimePrices'["BTC"].source IN
        /\ src = "cryptocompare" => c[1].outcome = "ok"
        /\ src = "coincap" => (Len(c) >= 2 /\ c[2].outcome = "ok")
        /\ src = "coingecko-fallback" => Len(c) = 3

C36_BatchAtomicity == [][C36_Step]_vars

(* C37.  Broadcast isolation: when the sink has answered a send of a       *)
(* volatility broadcast, with success or with an error, the run sends to   *)
(* the next chat of the loop whose flag is set, and when none is left it   *)
(* rebases the baseline to the price and the time of the evaluation that   *)
(* fired; a failed send ends neither the broadcast nor the run.            *)
C37_Step ==
    (runs # <<>> /\ runs[1].pc = "send" /\ runs' # runs) =>
        LET r == runs[1]
            on == {i \in 1..Len(r.keys) : enabled[r.keys[i]] = "on"} IN
        /\ Len(runs') = 1
        /\ IF on = {}
           THEN /\ runs'[1].pc = "pace"
                /\ baselines'[r.sym] = [lastAlertPrice |-> r.price,
                                        lastAlertTime |-> r.at]
                /\ volSent' = volSent
           ELSE LET i == CHOOSE j \in on : \A m \in on : j <= m
                    c == r.keys[i] IN
                /\ runs'[1].pc = "send"
                /\ volSent'[c] # <<>> /\ volSent'[c][Len(volSent'[c])] = now
                /\ \A d \in Chats \ {c} : volSent'[d] = volSent[d]
                /\ runs'[1].keys = SubSeq(r.keys, i + 1, Len(r.keys))
                /\ baselines' = baselines

C37_BroadcastIsolation == [][C37_Step]_vars

C37_Witness ==
    /\ runs # <<>> /\ runs[1].pc = "pace" /\ runs[1].failed
    /\ runs[1].price = 1035
    /\ volSent[1] # <<>> /\ volSent[2] # <<>>
    /\ volSent[1][Len(volSent[1])] = runs[1].at
    /\ volSent[2][Len(volSent[2])] = runs[1].at
    /\ baselines["BTC"] = [lastAlertPrice |-> 1035, lastAlertTime |-> runs[1].at]

(* C38.  Rebase without subscribers: an evaluation that fires while no     *)
(* chat has its flag set sends nothing and rebases the baseline to the     *)
(* current price and time; the next fire that notifies a chat is then      *)
(* measured from that price, by at least the threshold, and comes more     *)
(* than the cooldown after it.                                             *)
Unnotified(f) ==
    \A c \in Chats : \A i \in 1..Len(volSent[c]) : volSent[c][i] # f.at

C38_Step ==
    LET cur == realtimePrices["BTC"].price IN
    /\ (fired' # fired /\ \A c \in Chats : enabled[c] # "on") =>
           /\ volSent' = volSent
           /\ baselines'["BTC"] = [lastAlertPrice |-> cur, lastAlertTime |-> now]
    /\ (/\ fired' # fired /\ volSent' # volSent
        /\ fired # <<>> /\ Unnotified(fired[Len(fired)])) =>
           LET f == fired[Len(fired)] IN
           /\ Abs(cur - f.price) * 100 >= AUTO_ALERT_THRESHOLD * f.price
           /\ now - f.at > AUTO_ALERT_COOLDOWN

C38_RebaseWithoutSubscribers == [][C38_Step]_vars

(* C39.  Per-chat routing: the trigger notification of a manual alert is   *)
(* handed to the sink only for the chat under which /alert stored it,      *)
(* never for another chat, and a step that triggers an alert changes no    *)
(* other alert.                                                            *)
C39_Step ==
    /\ \A id \in 1..Len(sent) :
           sent'[id] # sent[id] => sent'[id] = Append(sent[id], heap[id].chat)
    /\ \A id \in 1..Len(heap) :
           (heap[id].status = "active" /\ heap'[id].status = "triggered") =>
               /\ Len(heap') = Len(heap)
               /\ \A j \in 1..Len(heap) : j # id => heap'[j] = heap[j]

C39_PerChatRouting == [][C39_Step]_vars

C39_Witness ==
    /\ Len(heap) = 2
    /\ heap[1].chat = 1 /\ heap[1].status = "active" /\ sent[1] = <<>>
    /\ heap[2].chat = 2 /\ heap[2].status = "triggered" /\ sent[2] = <<2>>
    /\ priceAlerts[1] = <<1>> /\ priceAlerts[2] = <<2>>
    /\ evaluated.out = "sent" /\ evaluated.id = 2

====
